---- MODULE Spec2Model ----
(***************************************************************************)
(* DocScanPro3: the OCR queue (src/ocr/queue.ts), the recognition provider *)
(* (src/ocr/provider.ts), the Document Store (src/storage.ts) and the App  *)
(* handlers that write the Store (App.tsx).                                *)
(*                                                                         *)
(* JavaScript runs one task at a time: the code between two awaits is one  *)
(* atomic step.  Every action below is one such step.  A run of            *)
(* processNext/processDocument is a process of its own: a cancel does not  *)
(* stop it, it keeps waiting for its recognizePage call.                   *)
(***************************************************************************)
EXTENDS Integers, Sequences, FiniteSets, TLC

\* ------------------------------------------------------------------ bounds
MaxPages == 2
MaxRuns == 2
MaxAppRuns == 2
MaxUiOps == 1
MaxFifoDocs == 3
MaxFifoRuns == 3
MaxExportPages == 2

\* ------------------------------------------------------- program constants
ExcerptLimit == 200
ExcerptMinBreak == 150
RotationStep == 90
FullTurn == 360

\* document ids; Null is the null of currentDocumentId
DocIds == {1, 2}
Null == 0

\* An optional field of a JS object: <<>> is undefined, <<v>> is the value v.
Undefined == <<>>
Some(v) == <<v>>
IsDefined(x) == x # Undefined
Get(x) == x[1]

VARIABLES
  store,              \* MMKV 'docs-index': the persisted Doc[]
  appDocs,            \* App's React state `docs`
  isProcessing,       \* OcrQueue.isProcessing
  currentDocumentId,  \* OcrQueue.currentDocumentId
  processingQueue,    \* OcrQueue.processingQueue
  runs,               \* the processNext/processDocument invocations, in start order
  timers,             \* pending setTimeout(() => this.processNext(), 100)
  uiOps,              \* number of App handler calls so far (bounded)
  emitted,            \* the events ocrEvents emitted during the last step
  lastOp,             \* the operation the last step executed
  exported,           \* what the last export built (handleExport)
  progressListeners   \* OcrEventEmitter.progressListeners

vars == <<store, appDocs, isProcessing, currentDocumentId, processingQueue,
          runs, timers, uiOps, emitted, lastOp, exported,
          progressListeners>>

\* ------------------------------------------------------------ data model
NewPage(pid) ==
  [id |-> pid, rotation |-> 0, ocrText |-> Undefined, ocrBoxes |-> Undefined]

NewDoc(d, n) ==
  [id |-> d,
   pages |-> [k \in 1..n |-> NewPage(k)],
   ocr |-> <<>>,
   ocrStatus |-> Undefined,
   ocrProgress |-> Undefined,
   ocrExcerpt |-> Undefined]

\* docs.findIndex(d => d.id === documentId); 0 stands for -1
FindIndex(docs, documentId) ==
  IF \E k \in 1..Len(docs) : docs[k].id = documentId
  THEN CHOOSE k \in 1..Len(docs) :
         /\ docs[k].id = documentId
         /\ \A j \in 1..(k - 1) : docs[j].id # documentId
  ELSE 0

HasDoc(docs, documentId) == FindIndex(docs, documentId) # 0
DocOf(docs, documentId) == docs[FindIndex(docs, documentId)]

\* ------------------------------------------------------------ strings
\* A string is a sequence of one-character strings.
Space == " "
Newline == "\n"
IsWhitespace(c) == c \in {Space, Newline}

RECURSIVE TrimStart(_)
TrimStart(s) ==
  IF s # <<>> /\ IsWhitespace(Head(s)) THEN TrimStart(Tail(s)) ELSE s

RECURSIVE TrimEnd(_)
TrimEnd(s) ==
  IF s # <<>> /\ IsWhitespace(s[Len(s)])
  THEN TrimEnd(SubSeq(s, 1, Len(s) - 1)) ELSE s

Trim(s) == TrimEnd(TrimStart(s))

\* parts.join(sep)
RECURSIVE Join(_, _)
Join(parts, sep) ==
  IF parts = <<>> THEN <<>>
  ELSE IF Len(parts) = 1 THEN parts[1]
       ELSE parts[1] \o <<sep>> \o Join(Tail(parts), sep)

\* s.substring(0, n)
Substring0(s, n) == SubSeq(s, 1, IF n < Len(s) THEN n ELSE Len(s))

\* s.lastIndexOf(' '), 0-based, -1 when there is none
LastIndexOf(s, c) ==
  IF \E k \in 1..Len(s) : s[k] = c
  THEN (CHOOSE k \in 1..Len(s) :
          s[k] = c /\ \A j \in (k + 1)..Len(s) : s[j] # c) - 1
  ELSE -1

\* the one-character string U+2026
Ellipsis == "ELLIPSIS"

\* p.ocrText || ''
TextOrEmpty(p) == IF IsDefined(p.ocrText) THEN Get(p.ocrText) ELSE <<>>

createOcrExcerpt(pages) ==
  LET allText == Trim(Join([k \in 1..Len(pages) |-> TextOrEmpty(pages[k])], Space))
      cutoff == Substring0(allText, ExcerptLimit)
      lastSpace == LastIndexOf(cutoff, Space)
  IN IF Len(allText) <= ExcerptLimit THEN allText
     ELSE IF lastSpace > ExcerptMinBreak
          THEN Substring0(cutoff, lastSpace) \o <<Ellipsis>>
          ELSE cutoff \o <<Ellipsis>>

\* ------------------------------------------------- src/ocr/provider.ts
\* One recognized word of VisionOCR (its box and the image it was measured on).
SampleWord ==
  [text |-> <<"a">>, box |-> [x |-> 0, y |-> 0, width |-> 1, height |-> 1],
   conf |-> 0, imgW |-> 1, imgH |-> 1]

\* What the two native engines and Image.getSize do on one call.
\*   vision: VisionOCR is not linked, answers, rejects, or exceeds the timeout
\*   text:   TextRecognition answers, rejects (both paths), or exceeds the timeout
RecognitionInputs ==
  [vision : {"unavailable", "ok", "error", "timeout"},
   visionWords : {<<>>, <<SampleWord>>},
   sizeOk : BOOLEAN,
   text : {"ok", "error", "timeout"},
   lines : {<<>>, <<<<"a">>>>}]

\* withTimeout: the race is won by the engine unless it exceeds the timeout
WithTimeoutRejects(outcome) == outcome \in {"error", "timeout"}

VisionResult(in) ==
  [fullText |-> Join([k \in 1..Len(in.visionWords) |-> in.visionWords[k].text], Space),
   words |-> in.visionWords]

\* FallbackResult with a box made up for the text.
FallbackResultWithBoxes(in) ==
  [fullText |-> Join(in.lines, Newline), words |-> <<SampleWord>>]

FallbackResult(in) ==
  [fullText |-> Join(in.lines, Newline), words |-> <<>>]

FailedResult == [fullText |-> <<>>, words |-> <<>>]

recognizePage(in) ==
  IF in.vision # "unavailable" /\ ~WithTimeoutRejects(in.vision)
  THEN VisionResult(in)
  ELSE IF ~in.sizeOk \/ WithTimeoutRejects(in.text)
       THEN FailedResult
       ELSE FallbackResult(in)

RecognitionOutcomes == {recognizePage(in) : in \in RecognitionInputs}

\* The outcomes when the fallback engine finds no line of text.
NoFallbackTextOutcomes ==
  {recognizePage(in) : in \in {x \in RecognitionInputs : x.lines = <<>>}}

\* ---------------------------------------------------- src/ocr/events.ts
ProgressEvent(documentId, processed, total, r) ==
  [type |-> "progress", documentId |-> documentId, processed |-> processed,
   total |-> total, success |-> TRUE, run |-> r]

CompleteEvent(documentId, success, r) ==
  [type |-> "complete", documentId |-> documentId, processed |-> -1,
   total |-> -1, success |-> success, run |-> r]

\* ----------------------------------------------------- src/ocr/queue.ts
\* Partial<Pick<Doc, 'ocrStatus' | 'ocrProgress' | 'ocrExcerpt' | 'pages'>>:
\* a key that is not passed is Undefined here.
NoUpdates ==
  [ocrStatus |-> Undefined, ocrProgress |-> Undefined, ocrExcerpt |-> Undefined,
   pages |-> Undefined]

\* { ...current, ...updates }
Merge(current, updates) ==
  [current EXCEPT
     !.ocrStatus = IF IsDefined(updates.ocrStatus) THEN updates.ocrStatus ELSE @,
     !.ocrProgress = IF IsDefined(updates.ocrProgress) THEN updates.ocrProgress ELSE @,
     !.ocrExcerpt = IF IsDefined(updates.ocrExcerpt) THEN updates.ocrExcerpt ELSE @,
     !.pages = IF IsDefined(updates.pages) THEN Get(updates.pages) ELSE @]

\* updateDocumentOcrState that adds a record when the document is not found.
updateDocumentOcrStateUpsert(docs, documentId, updates) ==
  LET docIndex == FindIndex(docs, documentId)
  IN IF docIndex = 0 THEN Append(docs, Merge(NewDoc(documentId, 0), updates))
     ELSE [docs EXCEPT ![docIndex] = Merge(docs[docIndex], updates)]

\* getDocsIndex(); findIndex; docs[docIndex] = {...current, ...updates}; saveDocsIndex
updateDocumentOcrState(docs, documentId, updates) ==
  LET docIndex == FindIndex(docs, documentId)
  IN IF docIndex = 0 THEN docs
     ELSE [docs EXCEPT ![docIndex] = Merge(docs[docIndex], updates)]

\* The queue's part of the state, threaded through the synchronous code.
QueueState ==
  [store |-> store, isProcessing |-> isProcessing,
   currentDocumentId |-> currentDocumentId, processingQueue |-> processingQueue,
   runs |-> runs, timers |-> timers, emitted |-> <<>>]

FinishedRun(run, outcome) ==
  [run EXCEPT !.pc = "finished", !.outcome = outcome, !.i = 0, !.processed = 0,
              !.total = 0, !.pages = <<>>, !.updatedPages = <<>>]

\* processNext, the finally block (lines 167-176)
Finally(S, r, outcome) ==
  [S EXCEPT !.isProcessing = FALSE,
            !.currentDocumentId = Null,
            !.timers = IF Len(S.processingQueue) > 0 THEN @ + 1 ELSE @,
            !.runs = [@ EXCEPT ![r] = FinishedRun(@, outcome)]]

\* ocrEvents.emitComplete (the run's count of completions is bookkeeping)
EmitComplete(S, r, success) ==
  [S EXCEPT !.emitted = Append(@, CompleteEvent(S.runs[r].doc, success, r)),
            !.runs = [@ EXCEPT ![r] = [@ EXCEPT !.completions = @ + 1]]]

\* processNext, the catch block (lines 150-166), then finally
Catch(S, r) ==
  LET documentId == S.runs[r].doc
      S1 == [S EXCEPT
               !.store = updateDocumentOcrState(@, documentId,
                           [NoUpdates EXCEPT !.ocrStatus = Some("error")])]
  IN Finally(EmitComplete(S1, r, FALSE), r, "error")

\* updatedPages.map(p => p.ocrText ?? '').filter(Boolean)
LegacyOcr(pages) ==
  SelectSeq([k \in 1..Len(pages) |-> TextOrEmpty(pages[k])], LAMBDA t : t # <<>>)

\* Finalize whose final write leaves ocrStatus as it is.
FinalizeLeavesStatus(S, r) ==
  LET run == S.runs[r]
      documentId == run.doc
      ocrExcerpt == createOcrExcerpt(run.updatedPages)
      finalDocIndex == FindIndex(S.store, documentId)
      finalDocs ==
        IF finalDocIndex # 0
        THEN [S.store EXCEPT ![finalDocIndex] =
               [@ EXCEPT !.ocrProgress = Some([processed |-> run.processed,
                                               total |-> run.total]),
                         !.ocrExcerpt = Some(ocrExcerpt),
                         !.pages = run.updatedPages,
                         !.ocr = LegacyOcr(run.updatedPages)]]
        ELSE S.store
      S1 == [S EXCEPT !.store = finalDocs]
  IN Finally(EmitComplete(S1, r, TRUE), r, "success")

\* processDocument, lines 277-301: excerpt, final write, completion event
Finalize(S, r) ==
  LET run == S.runs[r]
      documentId == run.doc
      ocrExcerpt == createOcrExcerpt(run.updatedPages)
      finalDocIndex == FindIndex(S.store, documentId)
      finalDocs ==
        IF finalDocIndex # 0
        THEN [S.store EXCEPT ![finalDocIndex] =
               [@ EXCEPT !.ocrStatus = Some("done"),
                         !.ocrProgress = Some([processed |-> run.processed,
                                               total |-> run.total]),
                         !.ocrExcerpt = Some(ocrExcerpt),
                         !.pages = run.updatedPages,
                         !.ocr = LegacyOcr(run.updatedPages)]]
        ELSE S.store
      S1 == [S EXCEPT !.store = finalDocs]
  IN Finally(EmitComplete(S1, r, TRUE), r, "success")

\* line 212: if (this.currentDocumentId !== documentId) return
SeesCancel(S, documentId) == S.currentDocumentId # documentId

\* processDocument, the head of the for loop at index run.i (lines 210-223):
\* past the last page it finalizes; when it sees a cancel it returns; otherwise
\* it calls recognizePage and waits.
LoopHead(S, r) ==
  LET run == S.runs[r]
  IN IF run.i >= Len(run.pages) THEN Finalize(S, r)
     ELSE IF SeesCancel(S, run.doc) THEN Finally(S, r, "cancelled")
     ELSE [S EXCEPT !.runs = [@ EXCEPT ![r] = [@ EXCEPT !.pc = "recognizing"]]]

\* processDocument from its call to its first await (lines 182-223)
StartDocument(S, documentId) ==
  LET r == Len(S.runs) + 1
      found == HasDoc(S.store, documentId)
      doc == DocOf(S.store, documentId)
      blank == [doc |-> documentId, pc |-> "rejected", outcome |-> "", i |-> 0,
                processed |-> 0, total |-> 0, pages |-> <<>>, updatedPages |-> <<>>,
                cancelled |-> FALSE, completions |-> 0]
  IN IF ~found \/ Len(doc.pages) = 0
     THEN [S EXCEPT !.runs = Append(@, blank)]
     ELSE LET total == Len(doc.pages)
              S1 == [S EXCEPT
                       !.store = updateDocumentOcrState(@, documentId,
                          [NoUpdates EXCEPT
                             !.ocrStatus = Some("running"),
                             !.ocrProgress = Some([processed |-> 0, total |-> total])]),
                       !.emitted = Append(@, ProgressEvent(documentId, 0, total, r)),
                       !.runs = Append(@, [blank EXCEPT !.pc = "started",
                                                        !.total = total,
                                                        !.pages = doc.pages,
                                                        !.updatedPages = doc.pages])]
          IN LoopHead(S1, r)

\* processNext that takes the newest entry of the wait list.
processNextNewest(S) ==
  IF S.isProcessing \/ Len(S.processingQueue) = 0 THEN S
  ELSE LET documentId == S.processingQueue[Len(S.processingQueue)]
       IN StartDocument([S EXCEPT !.processingQueue = SubSeq(@, 1, Len(@) - 1),
                                  !.isProcessing = TRUE,
                                  !.currentDocumentId = documentId],
                        documentId)

\* processNext up to `await this.processDocument(documentId)` (lines 136-149)
processNext(S) ==
  IF S.isProcessing \/ Len(S.processingQueue) = 0 THEN S
  ELSE LET documentId == Head(S.processingQueue)
       IN StartDocument([S EXCEPT !.processingQueue = Tail(@),
                                  !.isProcessing = TRUE,
                                  !.currentDocumentId = documentId],
                        documentId)

Includes(queue, documentId) == \E k \in 1..Len(queue) : queue[k] = documentId

\* Commit the queue's state after a synchronous stretch of code.
Commit(S, op) ==
  /\ store' = S.store
  /\ isProcessing' = S.isProcessing
  /\ currentDocumentId' = S.currentDocumentId
  /\ processingQueue' = S.processingQueue
  /\ runs' = S.runs
  /\ timers' = S.timers
  /\ emitted' = S.emitted
  /\ lastOp' = op
  /\ UNCHANGED <<appDocs, uiOps, exported, progressListeners>>

NoResult == [fullText |-> <<>>, words |-> <<>>]

\* Nothing has been exported yet.
NoExport == [kind |-> "none"]
Op(name, documentId, r) ==
  [op |-> name, doc |-> documentId, run |-> r, result |-> NoResult]

\* A rejected processDocument promise is handled by processNext's catch in a
\* microtask: before any timer, native callback or touch event is served.
MicrotaskPending == \E r \in 1..Len(runs) : runs[r].pc = "rejected"

\* lines 80-90: skip if already done or running
AlreadyDoneOrRunning(doc) ==
  doc.ocrStatus = Some("done") \/ doc.ocrStatus = Some("running")

\* Push without the test for an entry that is already there.
PushAlways(S, documentId) ==
  [S EXCEPT !.processingQueue = Append(@, documentId)]

\* lines 93-99: add to queue if not already queued
Push(S, documentId) ==
  IF ~Includes(S.processingQueue, documentId) /\ S.currentDocumentId # documentId
  THEN [S EXCEPT !.processingQueue = Append(@, documentId)]
  ELSE S

\* OcrQueue.enqueueDoc (lines 66-105)
EnqueueDocResult(S, documentId) ==
  IF ~HasDoc(S.store, documentId) THEN S
  ELSE IF AlreadyDoneOrRunning(DocOf(S.store, documentId)) THEN S
  ELSE LET S1 == Push(S, documentId)
       IN IF ~S1.isProcessing THEN processNext(S1) ELSE S1

EnqueueDoc(documentId) ==
  Commit(EnqueueDocResult(QueueState, documentId), Op("enqueueDoc", documentId, 0))

\* StopCurrent that also starts the progress over.
StopCurrentResetsProgress(S, documentId) ==
  [S EXCEPT !.store = updateDocumentOcrState(@, documentId,
                        [NoUpdates EXCEPT
                           !.ocrStatus = Some("idle"),
                           !.ocrProgress = Some([processed |-> 0, total |-> 0])]),
            !.isProcessing = FALSE,
            !.currentDocumentId = Null,
            !.runs = [r \in 1..Len(@) |->
                        IF @[r].doc = documentId /\ @[r].pc # "finished"
                        THEN [@[r] EXCEPT !.cancelled = TRUE] ELSE @[r]]]

\* lines 118-126: the active document goes back to idle and the queue is freed
StopCurrent(S, documentId) ==
  [S EXCEPT !.store = updateDocumentOcrState(@, documentId,
                        [NoUpdates EXCEPT !.ocrStatus = Some("idle")]),
            !.isProcessing = FALSE,
            !.currentDocumentId = Null,
            !.runs = [r \in 1..Len(@) |->
                        IF @[r].doc = documentId /\ @[r].pc # "finished"
                        THEN [@[r] EXCEPT !.cancelled = TRUE] ELSE @[r]]]

\* OcrQueue.cancel (lines 110-131)
CancelResult(S, documentId) ==
  LET S1 == [S EXCEPT !.processingQueue =
                        SelectSeq(@, LAMBDA id : id # documentId)]
  IN IF S1.currentDocumentId = documentId
     THEN processNext(StopCurrent(S1, documentId))
     ELSE S1

Cancel(documentId) ==
  Commit(CancelResult(QueueState, documentId), Op("cancel", documentId, 0))

\* setTimeout(() => this.processNext(), 100) fires (line 174)
TimerFires ==
  /\ timers > 0
  /\ ~MicrotaskPending
  /\ Commit(processNext([QueueState EXCEPT !.timers = @ - 1]), Op("timer", Null, 0))

\* WithOcr that writes nothing back when no text was recognized.
WithOcrSkipEmpty(page, ocrResult) ==
  IF ocrResult.fullText = <<>> THEN page
  ELSE [page EXCEPT !.ocrText = Some(ocrResult.fullText),
                    !.ocrBoxes = Some(ocrResult.words)]

\* lines 226-230: the page with the recognition result
WithOcr(page, ocrResult) ==
  [page EXCEPT !.ocrText = Some(ocrResult.fullText),
               !.ocrBoxes = Some(ocrResult.words)]

\* PageRecognizedResult that counts every page twice.
PageRecognizedCountsTwice(S, r, ocrResult) ==
  LET run == S.runs[r]
      updatedPages == [run.updatedPages EXCEPT
                         ![run.i + 1] = WithOcr(run.pages[run.i + 1], ocrResult)]
      processed == run.processed + 2
      S1 == [S EXCEPT
               !.store = updateDocumentOcrState(@, run.doc,
                           [NoUpdates EXCEPT
                              !.ocrProgress = Some([processed |-> processed,
                                                    total |-> run.total]),
                              !.pages = Some(updatedPages)]),
               !.emitted = Append(@, ProgressEvent(run.doc, processed, run.total, r)),
               !.runs = [@ EXCEPT ![r] = [@ EXCEPT !.updatedPages = updatedPages,
                                                   !.processed = processed,
                                                   !.i = @ + 1]]]
  IN LoopHead(S1, r)

\* processDocument from the return of recognizePage to the next await or to its
\* end (lines 223-249, then the loop head or lines 277-301, then finally)
PageRecognizedResult(S, r, ocrResult) ==
  LET run == S.runs[r]
      updatedPages == [run.updatedPages EXCEPT
                         ![run.i + 1] = WithOcr(run.pages[run.i + 1], ocrResult)]
      processed == run.processed + 1
      S1 == [S EXCEPT
               !.store = updateDocumentOcrState(@, run.doc,
                           [NoUpdates EXCEPT
                              !.ocrProgress = Some([processed |-> processed,
                                                    total |-> run.total]),
                              !.pages = Some(updatedPages)]),
               !.emitted = Append(@, ProgressEvent(run.doc, processed, run.total, r)),
               !.runs = [@ EXCEPT ![r] = [@ EXCEPT !.updatedPages = updatedPages,
                                                   !.processed = processed,
                                                   !.i = @ + 1]]]
  IN LoopHead(S1, r)

PageRecognized(r, ocrResult) ==
  /\ r \in 1..Len(runs)
  /\ runs[r].pc = "recognizing"
  /\ ~MicrotaskPending
  /\ Commit(PageRecognizedResult(QueueState, r, ocrResult),
            [Op("pageRecognized", runs[r].doc, r) EXCEPT !.result = ocrResult])

\* processNext resumes with the rejection of processDocument (lines 150-176)
RunRejected(r) ==
  /\ r \in 1..Len(runs)
  /\ runs[r].pc = "rejected"
  /\ Commit(Catch(QueueState, r), Op("runRejected", runs[r].doc, r))

\* ----------------------------------------------------------------- App.tsx
\* setDocs(prev => { const next = ...; saveDocsIndex(next); return next })
SaveNext(next, op) ==
  /\ ~MicrotaskPending
  /\ appDocs' = next
  /\ store' = next
  /\ uiOps' = uiOps + 1
  /\ emitted' = <<>>
  /\ lastOp' = op
  /\ UNCHANGED <<isProcessing, currentDocumentId, processingQueue, runs, timers,
                 exported,
                 progressListeners>>

\* prev.map(d => (d.id === docId ? { ...d, pages } : d))
WithPages(docs, docId, pages) ==
  [k \in 1..Len(docs) |->
     IF docs[k].id = docId THEN [docs[k] EXCEPT !.pages = pages] ELSE docs[k]]

PagesOf(docs, docId) == DocOf(docs, docId).pages

HasPage(docs, docId, pageId) ==
  /\ HasDoc(docs, docId)
  /\ \E k \in 1..Len(DocOf(docs, docId).pages) : DocOf(docs, docId).pages[k].id = pageId

\* deleteDoc (lines 119-126)
DeleteDoc(id) ==
  /\ HasDoc(appDocs, id)
  /\ SaveNext(SelectSeq(appDocs, LAMBDA d : d.id # id), Op("deleteDoc", id, 0))

\* handleDeletePage (lines 243-253)
HandleDeletePage(docId, pageId) ==
  /\ HasPage(appDocs, docId, pageId)
  /\ SaveNext(WithPages(appDocs, docId,
                SelectSeq(PagesOf(appDocs, docId), LAMBDA p : p.id # pageId)),
              Op("handleDeletePage", docId, 0))

\* { ...p, ...patch } (line 334); the patch carries a rotation or nothing
Patched(p, patch) ==
  [p EXCEPT !.rotation = IF IsDefined(patch.rotation) THEN Get(patch.rotation) ELSE @]

\* handleApplyPageEdits (lines 317-349): the patched list is saved, then
\* ocrQueue.enqueueDoc(docId) runs in the same synchronous stretch
HandleApplyPageEdits(docId, pageId, patch) ==
  LET next == [k \in 1..Len(appDocs) |->
                 IF appDocs[k].id # docId THEN appDocs[k]
                 ELSE [appDocs[k] EXCEPT !.pages =
                         [j \in 1..Len(@) |->
                            IF @[j].id = pageId THEN Patched(@[j], patch) ELSE @[j]]]]
      S == EnqueueDocResult([QueueState EXCEPT !.store = next], docId)
  IN /\ ~MicrotaskPending
     /\ appDocs' = next
     /\ uiOps' = uiOps + 1
     /\ store' = S.store
     /\ isProcessing' = S.isProcessing
     /\ currentDocumentId' = S.currentDocumentId
     /\ processingQueue' = S.processingQueue
     /\ runs' = S.runs
     /\ timers' = S.timers
     /\ emitted' = S.emitted
     /\ lastOp' = Op("handleApplyPageEdits", docId, 0)
     /\ UNCHANGED <<exported, progressListeners>>

\* handleRotatePage (lines 255-279)
Rotated(p) == [p EXCEPT !.rotation = (@ + RotationStep) % FullTurn]

HandleRotatePage(docId, pageId) ==
  /\ HasPage(appDocs, docId, pageId)
  /\ SaveNext(WithPages(appDocs, docId,
                [k \in 1..Len(PagesOf(appDocs, docId)) |->
                   IF PagesOf(appDocs, docId)[k].id = pageId
                   THEN Rotated(PagesOf(appDocs, docId)[k])
                   ELSE PagesOf(appDocs, docId)[k]]),
              Op("handleRotatePage", docId, 0))

\* saveDocsIndex(docs): the save-on-change effect (lines 68-79) and the save when
\* the app goes to the background (lines 88-96).  A save of what the Store
\* already holds changes nothing and is left out.
SaveDocs ==
  /\ store # appDocs
  /\ ~MicrotaskPending
  /\ store' = appDocs
  /\ emitted' = <<>>
  /\ lastOp' = Op("saveDocs", Null, 0)
  /\ UNCHANGED <<appDocs, isProcessing, currentDocumentId, processingQueue, runs,
                 timers, uiOps, exported,
                 progressListeners>>

\* ------------------------------------------------------------- src/pdf.ts
\* A uri or a path is a sequence of tokens; the scheme is one token.
FileScheme == "file://"

\* `file://${path}`
FileUri(path) == <<FileScheme>> \o path

\* uri.replace('file://', ''): the first occurrence is taken out
StripFileScheme(uri) ==
  IF \E k \in 1..Len(uri) : uri[k] = FileScheme
  THEN LET k == CHOOSE i \in 1..Len(uri) :
                  uri[i] = FileScheme /\ \A j \in 1..(i - 1) : uri[j] # FileScheme
       IN SubSeq(uri, 1, k - 1) \o SubSeq(uri, k + 1, Len(uri))
  ELSE uri

\* The file ImageFilters.process writes for an image.
FilteredUri(uri) == FileUri(<<"/filtered">> \o StripFileScheme(uri))

\* hasVisualEdits that looks at the rotation only.
hasVisualEditsRotationOnly(doc) ==
  IF Len(doc.pages) = 0 THEN FALSE
  ELSE \E k \in 1..Len(doc.pages) : doc.pages[k].rotation # 0

\* hasVisualEdits (lines 16-39); a missing rotation reads as 0
hasVisualEdits(doc) ==
  IF Len(doc.pages) = 0 THEN FALSE
  ELSE \E k \in 1..Len(doc.pages) :
         LET p == doc.pages[k]
             rotated == p.rotation # 0
             customFilter == p.filter # "" /\ p.filter # "color"
             hasAutoContrast == p.autoContrast = Some(TRUE)
         IN rotated \/ customFilter \/ hasAutoContrast

\* getProcessedUriForExport (lines 41-67): the uri to export and the number of
\* ImageFilters.process calls made; imageFilters says whether the native
\* module is linked ("unavailable"), answers ("ok") or rejects ("error")
getProcessedUriForExport(page, imageFilters) ==
  IF IsDefined(page.processedUri) /\ Get(page.processedUri) # <<>>
  THEN [uri |-> Get(page.processedUri), calls |-> 0]
  ELSE IF imageFilters = "unavailable" THEN [uri |-> page.uri, calls |-> 0]
  ELSE IF imageFilters = "error" THEN [uri |-> page.uri, calls |-> 1]
  ELSE [uri |-> FilteredUri(page.uri), calls |-> 1]

\* --------------------------------------------- ios/NativePDFBuilder.swift
RECURSIVE GCD(_, _)
GCD(a, b) == IF b = 0 THEN a ELSE GCD(b, a % b)

\* A number n / d (d >= 0) of the floating-point arithmetic, kept exact and in
\* lowest terms. Dividing by zero does not trap: n / 0 is Infinity (1/0),
\* -Infinity (-1/0) or, for 0 / 0, NaN (0/0).
Fraction(n, d) ==
  LET g == GCD(IF n < 0 THEN -n ELSE n, d)
  IN IF g = 0 THEN [num |-> 0, den |-> 0]
     ELSE [num |-> n \div g, den |-> d \div g]

\* lines 101-130: where one word is drawn; pageRect has its origin at zero
NativeWordOrigin(word, imgW, imgH, pageSize) ==
  LET yTopImage == imgH - (word.y + word.height)
  IN [text |-> word.text,
      x |-> Fraction(word.x * pageSize.width, imgW),
      y |-> Fraction(yTopImage * pageSize.height, imgH)]

\* NativePDFBuilder.build (lines 10-139): every page is as large as the first
\* page's image, and every word of the payload is drawn
NativePDFBuilderBuild(pagesPayload, pageSize) ==
  [k \in 1..Len(pagesPayload) |->
     [image |-> pagesPayload[k].imagePath,
      pageRect |-> pageSize,
      words |-> [w \in 1..Len(pagesPayload[k].ocrWords) |->
                   NativeWordOrigin(pagesPayload[k].ocrWords[w], pagesPayload[k].imgW,
                                    pagesPayload[k].imgH, pageSize)]]]

\* ------------------------------------------ src/native/nativePDFBuilder.ts
\* lines 25-55: the payload of one page.  Word boxes are whole pixels here, so
\* Math.round leaves them as they are; page.width and page.height only stand in
\* when the page has no word to scale.
PagePayload(page) ==
  LET ocrWords == IF IsDefined(page.ocrBoxes) THEN Get(page.ocrBoxes) ELSE <<>>
  IN [imagePath |-> StripFileScheme(page.uri),
      imgW |-> IF ocrWords # <<>> THEN ocrWords[1].imgW ELSE 0,
      imgH |-> IF ocrWords # <<>> THEN ocrWords[1].imgH ELSE 0,
      ocrWords |-> [w \in 1..Len(ocrWords) |->
                      [text |-> ocrWords[w].text, x |-> ocrWords[w].box.x,
                       y |-> ocrWords[w].box.y, width |-> ocrWords[w].box.width,
                       height |-> ocrWords[w].box.height, conf |-> ocrWords[w].conf]]]

\* The promise rejects with Error(message).
Rejected(message) ==
  [kind |-> "rejected", uri |-> <<>>, pages |-> <<>>, message |-> message]

\* buildPdfNative (lines 16-59)
buildPdfNative(doc, builderLinked, pageSize) ==
  IF ~builderLinked THEN Rejected("NativePDFBuilder module not available")
  ELSE IF Len(doc.pages) = 0 THEN Rejected("Document has no pages")
  ELSE IF \E k \in 1..Len(doc.pages) : doc.pages[k].uri = <<>>
       THEN Rejected("Page missing uri")
       ELSE [kind |-> "pdf",
             message |-> "",
             uri |-> FileUri(<<"/tmp/export.pdf">>),
             pages |-> NativePDFBuilderBuild(
                         [k \in 1..Len(doc.pages) |-> PagePayload(doc.pages[k])],
                         pageSize)]

\* ------------------------------------------------- src/pdf.ts, the export
\* The number of pages for which ImageFilters.process was called.
FilterCalls(processed) ==
  Cardinality({k \in 1..Len(processed) : processed[k].calls > 0})

\* buildPdfFromImages that returns the original only while no page was deleted
\* or moved.
buildPdfFromImagesUntouchedPages(doc, env) ==
  IF /\ IsDefined(doc.originalPdfPath)
     /\ Get(doc.originalPdfPath) # <<>>
     /\ ~hasVisualEdits(doc)
     /\ \A k \in 1..Len(doc.pages) : doc.pages[k].id = k
     /\ env.originalExists
  THEN [kind |-> "original", message |-> "", pages |-> <<>>,
        uri |-> FileUri(Get(doc.originalPdfPath)),
        filterCalls |-> 0, builderCalls |-> 0]
  ELSE LET processed == [k \in 1..Len(doc.pages) |->
                           getProcessedUriForExport(doc.pages[k], env.imageFilters)]
           processedPages == [k \in 1..Len(doc.pages) |->
                                [doc.pages[k] EXCEPT !.uri = processed[k].uri]]
           docWithProcessedPages == [doc EXCEPT !.pages = processedPages]
       IN buildPdfNative(docWithProcessedPages, env.builderLinked, env.imageSizes[1])
            @@ [filterCalls |-> FilterCalls(processed), builderCalls |-> 1]

\* buildPdfFromImages (lines 69-110).  env is what the device answers:
\* originalExists (RNFS.exists), imageFilters, builderLinked, and imageSizes,
\* the pixel size of each page's final image; the builder takes its page size
\* from the first one.
buildPdfFromImages(doc, env) ==
  IF /\ IsDefined(doc.originalPdfPath)
     /\ Get(doc.originalPdfPath) # <<>>
     /\ ~hasVisualEdits(doc)
     /\ env.originalExists
  THEN [kind |-> "original", message |-> "", pages |-> <<>>,
        uri |-> FileUri(Get(doc.originalPdfPath)),
        filterCalls |-> 0, builderCalls |-> 0]
  ELSE LET processed == [k \in 1..Len(doc.pages) |->
                           getProcessedUriForExport(doc.pages[k], env.imageFilters)]
           processedPages == [k \in 1..Len(doc.pages) |->
                                [doc.pages[k] EXCEPT !.uri = processed[k].uri]]
           docWithProcessedPages == [doc EXCEPT !.pages = processedPages]
       IN buildPdfNative(docWithProcessedPages, env.builderLinked, env.imageSizes[1])
            @@ [filterCalls |-> FilterCalls(processed), builderCalls |-> 1]

\* App.handleExport (App.tsx lines 383-405): the document is read from the
\* Store and exported; `exported` remembers the document and the device's
\* answers next to the result.
HandleExport(docId, env) ==
  /\ HasDoc(store, docId)
  /\ exported' = buildPdfFromImages(DocOf(store, docId), env)
                   @@ [doc |-> docId, page |-> 0, env |-> env]
  /\ lastOp' = Op("handleExport", docId, 0)
  /\ emitted' = <<>>
  /\ UNCHANGED <<store, appDocs, isProcessing, currentDocumentId, processingQueue,
                 runs, timers, uiOps,
                 progressListeners>>

\* recognizePage, lines 49-54: const uriToUse = processedUri ?? imagePath
UriToUse(imagePath, processedUri) ==
  IF IsDefined(processedUri) THEN Get(processedUri) ELSE imagePath

\* processDocument, line 223: recognizePage(page.uri), no second argument
RecognitionRequest(page) == UriToUse(page.uri, Undefined)

\* The recognition call the queue makes for page k of a stored document.
RecognitionCall(docId, k) ==
  /\ HasDoc(store, docId)
  /\ k \in 1..Len(PagesOf(store, docId))
  /\ exported' = [kind |-> "ocr", message |-> "", pages |-> <<>>,
                  uri |-> RecognitionRequest(PagesOf(store, docId)[k]),
                  filterCalls |-> 0, builderCalls |-> 0,
                  doc |-> docId, page |-> k, env |-> <<>>]
  /\ lastOp' = Op("recognitionCall", docId, 0)
  /\ emitted' = <<>>
  /\ UNCHANGED <<store, appDocs, isProcessing, currentDocumentId, processingQueue,
                 runs, timers, uiOps,
                 progressListeners>>

\* ------------------------------------- the pdf-lib export (unnamed/part_016)
\* a + b and max(a, b) of exact numbers
FractionSum(a, b) == Fraction(a.num * b.den + b.num * a.den, a.den * b.den)
FractionMax(a, b) == IF a.num * b.den >= b.num * a.den THEN a ELSE b

\* imageRectToPdfRect that keeps the image's top-left origin.
imageRectToPdfRectNoFlip(box, ocrImageW, ocrImageH, drawRect) ==
  LET size == FractionMax(Fraction(9 * box.height * drawRect.height, 10 * ocrImageH),
                          Fraction(6, 1))
  IN [x |-> Fraction(drawRect.x * ocrImageW + box.x * drawRect.width, ocrImageW),
      y |-> Fraction(drawRect.y * ocrImageH + box.y * drawRect.height, ocrImageH),
      size |-> size,
      baselineAdjust |-> Fraction(size.num, 5 * size.den)]

\* imageRectToPdfRect (lines 38-62), with scaleX = drawRect.width / ocrImageW
\* and scaleY = drawRect.height / ocrImageH
imageRectToPdfRect(box, ocrImageW, ocrImageH, drawRect) ==
  LET size == FractionMax(Fraction(9 * box.height * drawRect.height, 10 * ocrImageH),
                          Fraction(6, 1))
  IN [x |-> Fraction(drawRect.x * ocrImageW + box.x * drawRect.width, ocrImageW),
      y |-> Fraction((drawRect.y + drawRect.height) * ocrImageH
                       - (box.y + box.height) * drawRect.height, ocrImageH),
      size |-> size,
      baselineAdjust |-> Fraction(size.num, 5 * size.den)]

\* drawInvisibleTextLayer (lines 67-105): the words drawn, each with the rect
\* imageRectToPdfRect returned and the point drawText got
drawInvisibleTextLayer(ocrWords, imageSize, drawRect) ==
  LET shown == SelectSeq(ocrWords, LAMBDA word : Trim(word.text) # <<>>)
  IN [w \in 1..Len(shown) |->
        LET rect == imageRectToPdfRect(shown[w].box, imageSize.width,
                                       imageSize.height, drawRect)
        IN [text |-> shown[w].text, rect |-> rect, x |-> rect.x,
            y |-> FractionSum(rect.y, rect.baselineAdjust)]]

\* getProcessedUriForExport (lines 19-31): a missing ImageFilters module throws
\* inside the try block
getProcessedUriForExportPdfLib(page, imageFilters) ==
  IF imageFilters = "unavailable" THEN [uri |-> page.uri, calls |-> 0]
  ELSE IF imageFilters = "error" THEN [uri |-> page.uri, calls |-> 1]
  ELSE [uri |-> FilteredUri(page.uri), calls |-> 1]

\* lines 116-118
hasOcrData(doc) ==
  /\ doc.ocrStatus = Some("done")
  /\ \E k \in 1..Len(doc.pages) :
       IsDefined(doc.pages[k].ocrBoxes) /\ Len(Get(doc.pages[k].ocrBoxes)) > 0

\* lines 195-233: the overlay of one page, drawn over the whole image
PageOverlay(doc, docPage, font, pageSize) ==
  LET drawRect == [x |-> 0, y |-> 0, width |-> pageSize.width,
                   height |-> pageSize.height]
  IN IF /\ hasOcrData(doc) /\ font
        /\ IsDefined(docPage.ocrBoxes) /\ Len(Get(docPage.ocrBoxes)) > 0
     THEN LET ocrBoxes == Get(docPage.ocrBoxes)
              firstWord == ocrBoxes[1]
          IN IF firstWord.imgW = 0 \/ firstWord.imgH = 0 THEN <<>>
             ELSE drawInvisibleTextLayer(
                    ocrBoxes, [width |-> firstWord.imgW, height |-> firstWord.imgH],
                    drawRect)
     ELSE <<>>

\* buildPdfFromImages of the pdf-lib export (lines 107-243); env.fontEmbeds
\* says whether pdf.embedFont succeeds, env.imageSizes[k] is the size of the
\* image embedded for page k, which becomes the size of its PDF page (line 195)
buildPdfFromImagesPdfLib(docId, doc, env) ==
  LET processed == [k \in 1..Len(doc.pages) |->
                      getProcessedUriForExportPdfLib(doc.pages[k], env.imageFilters)]
      font == hasOcrData(doc) /\ env.fontEmbeds
  IN [kind |-> "pdf", message |-> "",
      uri |-> FileUri(<<"/documents/DocScanPro/", ToString(docId), "/export.pdf">>),
      pages |-> [k \in 1..Len(doc.pages) |->
                   [image |-> StripFileScheme(processed[k].uri),
                    pageRect |-> env.imageSizes[k],
                    words |-> PageOverlay(doc, doc.pages[k], font,
                                          env.imageSizes[k])]],
      filterCalls |-> FilterCalls(processed), builderCalls |-> 0]

\* An export through the pdf-lib pipeline.
ExportPdfLib(docId, env) ==
  /\ HasDoc(store, docId)
  /\ exported' = buildPdfFromImagesPdfLib(docId, DocOf(store, docId), env)
                   @@ [doc |-> docId, page |-> 0, env |-> env]
  /\ lastOp' = Op("exportPdfLib", docId, 0)
  /\ emitted' = <<>>
  /\ UNCHANGED <<store, appDocs, isProcessing, currentDocumentId, processingQueue,
                 runs, timers, uiOps,
                 progressListeners>>

\* ------------------------------------------------------------ specification
PageIds == 1..MaxPages

Init ==
  /\ \E n \in [DocIds -> 0..MaxPages] :
       /\ store = [d \in DocIds |-> NewDoc(d, n[d])]
       /\ appDocs = [d \in DocIds |-> NewDoc(d, n[d])]
  /\ isProcessing = FALSE
  /\ currentDocumentId = Null
  /\ processingQueue = <<>>
  /\ runs = <<>>
  /\ timers = 0
  /\ uiOps = 0
  /\ emitted = <<>>
  /\ lastOp = Op("init", Null, 0)
  /\ exported = NoExport
  /\ progressListeners = <<>>

\* The queue's steps; the model has room for maxRuns runs, and recognizePage
\* answers with one of `outcomes`.
QueueNext(maxRuns, outcomes) ==
  \/ \E d \in DocIds : EnqueueDoc(d) /\ Len(runs') <= maxRuns
  \/ \E d \in DocIds : Cancel(d) /\ Len(runs') <= maxRuns
  \/ TimerFires /\ Len(runs') <= maxRuns
  \/ \E r \in 1..maxRuns, ocrResult \in outcomes : PageRecognized(r, ocrResult)
  \/ \E r \in 1..maxRuns : RunRejected(r)

\* The App's steps; the model has room for MaxUiOps handler calls.
AppNext ==
  \/ \E d \in DocIds : DeleteDoc(d) /\ uiOps' <= MaxUiOps
  \/ \E d \in DocIds, p \in PageIds : HandleDeletePage(d, p) /\ uiOps' <= MaxUiOps
  \/ \E d \in DocIds, p \in PageIds : HandleRotatePage(d, p) /\ uiOps' <= MaxUiOps
  \/ SaveDocs

\* The queue alone: enqueueDoc, cancel and the recognition completions, on
\* documents of 0..MaxPages pages.
QueueOnly == QueueNext(MaxRuns, RecognitionOutcomes)
Spec == Init /\ [][QueueOnly]_vars

\* The queue together with the App's writes of the Store, on documents that
\* start with MaxPages pages.
Next == QueueNext(MaxAppRuns, NoFallbackTextOutcomes) \/ AppNext
AppInit == Init /\ \A k \in 1..Len(store) : Len(store[k].pages) = MaxPages
AppSpec == AppInit /\ [][Next]_vars

\* The queue alone on MaxFifoDocs documents of at most one page, where every
\* recognition call comes back empty-handed: enough documents for two of them
\* to wait behind the active one.
FifoDocIds == 1..MaxFifoDocs

FifoInit ==
  /\ \E n \in [FifoDocIds -> 0..1] :
       /\ store = [d \in FifoDocIds |-> NewDoc(d, n[d])]
       /\ appDocs = [d \in FifoDocIds |-> NewDoc(d, n[d])]
  /\ isProcessing = FALSE
  /\ currentDocumentId = Null
  /\ processingQueue = <<>>
  /\ runs = <<>>
  /\ timers = 0
  /\ uiOps = 0
  /\ emitted = <<>>
  /\ lastOp = Op("init", Null, 0)
  /\ exported = NoExport
  /\ progressListeners = <<>>

FifoNext ==
  \/ \E d \in FifoDocIds : EnqueueDoc(d) /\ Len(runs') <= MaxFifoRuns
  \/ \E d \in FifoDocIds : Cancel(d) /\ Len(runs') <= MaxFifoRuns
  \/ TimerFires /\ Len(runs') <= MaxFifoRuns
  \/ \E r \in 1..MaxFifoRuns : PageRecognized(r, FailedResult)
  \/ \E r \in 1..MaxFifoRuns : RunRejected(r)

FifoSpec == FifoInit /\ [][FifoNext]_vars

\* The export and the recognition request, on one stored document whose pages
\* carry what the editor and the import can have set.
RawUri(pid) == FileUri(<<"/pages/raw", ToString(pid)>>)
ProcessedUri(pid) == FileUri(<<"/pages/processed", ToString(pid)>>)
OriginalPdfPath == <<"/imports/original.pdf">>
ImageSize == [width |-> 4, height |-> 6]

\* newPage (types.ts lines 82-91) with the fields the export reads
ExportPage(pid, rotation, filter, autoContrast, processedUri, ocrBoxes) ==
  [NewPage(pid) EXCEPT !.rotation = rotation, !.ocrBoxes = ocrBoxes]
    @@ [uri |-> RawUri(pid), filter |-> filter, autoContrast |-> autoContrast,
        processedUri |-> processedUri]

EditedPages(pid) ==
  {ExportPage(pid, rotation, filter, autoContrast, processedUri, Undefined) :
     rotation \in {0, RotationStep},
     filter \in {"color", "grayscale"},
     autoContrast \in {Undefined, Some(FALSE), Some(TRUE)},
     processedUri \in {Undefined, Some(ProcessedUri(pid))}}

PageLists(pageSets) ==
  UNION {{pages \in [1..n -> UNION {pageSets[k] : k \in 1..n}] :
            \A k \in 1..n : pages[k] \in pageSets[k]} : n \in 0..MaxExportPages}

\* applyFinalFilterToPage leaves the pages of an imported PDF unprocessed.
EditedDocs ==
  {[NewDoc(1, 0) EXCEPT !.pages = pages] @@ [originalPdfPath |-> originalPdfPath] :
     pages \in PageLists([pid \in 1..MaxExportPages |-> EditedPages(pid)]),
     originalPdfPath \in {Undefined, Some(OriginalPdfPath)}}

\* Every page's final image has the same pixel size.
UniformSizes(size) == [k \in 1..MaxExportPages |-> size]

ExportEnvs ==
  [originalExists : BOOLEAN, imageFilters : {"unavailable", "ok", "error"},
   builderLinked : BOOLEAN, imageSizes : {UniformSizes(ImageSize)}]

QueueAtRest ==
  /\ isProcessing = FALSE
  /\ currentDocumentId = Null
  /\ processingQueue = <<>>
  /\ runs = <<>>
  /\ timers = 0
  /\ uiOps = 0
  /\ emitted = <<>>
  /\ lastOp = Op("init", Null, 0)
  /\ exported = NoExport
  /\ progressListeners = <<>>

ExportInit ==
  /\ \E doc \in EditedDocs :
       /\ IsDefined(doc.originalPdfPath)
          => \A k \in 1..Len(doc.pages) : ~IsDefined(doc.pages[k].processedUri)
       /\ store = <<doc>>
       /\ appDocs = <<doc>>
  /\ QueueAtRest

ExportNext ==
  \/ \E d \in DocIds, env \in ExportEnvs : HandleExport(d, env)
  \/ \E d \in DocIds, k \in 1..MaxExportPages : RecognitionCall(d, k)

ExportSpec == ExportInit /\ [][ExportNext]_vars

\* The two export pipelines on one stored document without edits, whose pages
\* carry what recognition can have left: no boxes, an empty list, or words of
\* VisionOCR measured on an image of ImageSize or of SampleSize.
SampleSize == [width |-> 1000, height |-> 1400]
DoubleSize == [width |-> 8, height |-> 12]

OcrWordAt(x, y, width, height, size) ==
  [SampleWord EXCEPT !.box = [x |-> x, y |-> y, width |-> width, height |-> height],
                     !.imgW = size.width, !.imgH = size.height]

OverlayWords ==
  {OcrWordAt(x, y, 2, height, ImageSize) : x \in {0, 1}, y \in {0, 2}, height \in {1, 3}}
    \cup {OcrWordAt(100, 50, 200, 40, SampleSize)}

RecognizedPages(pid) ==
  {ExportPage(pid, 0, "color", Undefined, Undefined, ocrBoxes) :
     ocrBoxes \in {Undefined, Some(<<>>)} \cup {Some(<<word>>) : word \in OverlayWords}}

RecognizedDocs ==
  {[NewDoc(1, 0) EXCEPT !.pages = pages, !.ocrStatus = ocrStatus]
     @@ [originalPdfPath |-> Undefined] :
     pages \in PageLists([pid \in 1..MaxExportPages |-> RecognizedPages(pid)]),
     ocrStatus \in {Undefined, Some("idle"), Some("running"), Some("done"),
                    Some("error")}}

OverlayEnvs ==
  [originalExists : {FALSE}, imageFilters : {"ok", "error"}, builderLinked : {TRUE},
   fontEmbeds : BOOLEAN,
   imageSizes : {UniformSizes(size) : size \in {ImageSize, DoubleSize, SampleSize}}]

OverlayInit ==
  /\ \E doc \in RecognizedDocs : store = <<doc>> /\ appDocs = <<doc>>
  /\ QueueAtRest

OverlayNext ==
  \/ \E d \in DocIds, env \in OverlayEnvs : HandleExport(d, env)
  \/ \E d \in DocIds, env \in OverlayEnvs : ExportPdfLib(d, env)

OverlaySpec == OverlayInit /\ [][OverlayNext]_vars

\* One recognizePage call, with what the two engines and Image.getSize do.
RecognizePage(in) ==
  /\ exported' = [kind |-> "recognized", env |-> in, result |-> recognizePage(in)]
  /\ lastOp' = Op("recognizePage", Null, 0)
  /\ emitted' = <<>>
  /\ UNCHANGED <<store, appDocs, isProcessing, currentDocumentId, processingQueue,
                 runs, timers, uiOps,
                 progressListeners>>

ProviderNext == \E in \in RecognitionInputs : RecognizePage(in)

ProviderSpec == Init /\ [][ProviderNext]_vars

\* ---------------------------------------------------------------- geometry
\* The arithmetic of the geometry conversions on numbers that may be Infinity,
\* -Infinity or NaN (a zero denominator).
Number(n) == Fraction(n, 1)
IsNaN(a) == a.den = 0 /\ a.num = 0
IsFiniteNumber(a) == a.den # 0

Times(a, b) == Fraction(a.num * b.num, a.den * b.den)

Minus(a, b) ==
  IF a.den = 0 /\ b.den = 0
  THEN IF IsNaN(a) \/ IsNaN(b) \/ a.num = b.num THEN Fraction(0, 0) ELSE a
  ELSE Fraction(a.num * b.den - b.num * a.den, a.den * b.den)

Plus(a, b) == Minus(a, [b EXCEPT !.num = -b.num])

Over(a, b) ==
  IF b.num < 0 THEN Fraction(-(a.num * b.den), a.den * (-b.num))
  ELSE Fraction(a.num * b.den, a.den * b.num)

\* Math.min: NaN when either argument is NaN
MathMin(a, b) ==
  IF IsNaN(a) \/ IsNaN(b) THEN Fraction(0, 0)
  ELSE IF a.num * b.den <= b.num * a.den THEN a ELSE b

\* getContainRect (lines 9-21)
getContainRect(imgW, imgH, boxW, boxH) ==
  LET scale == MathMin(Over(Number(boxW), Number(imgW)), Over(Number(boxH), Number(imgH)))
      width == Times(Number(imgW), scale)
      height == Times(Number(imgH), scale)
  IN [x |-> Over(Minus(Number(boxW), width), Number(2)),
      y |-> Over(Minus(Number(boxH), height), Number(2)),
      width |-> width, height |-> height]

\* mapNormToPreview (lines 26-35)
mapNormToPreview(normPoint, containRect) ==
  [x |-> Plus(containRect.x, Times(normPoint.x, containRect.width)),
   y |-> Plus(containRect.y, Times(normPoint.y, containRect.height))]

\* mapPreviewToNorm (lines 40-49)
mapPreviewToNorm(previewPoint, containRect) ==
  [x |-> Over(Minus(previewPoint.x, containRect.x), containRect.width),
   y |-> Over(Minus(previewPoint.y, containRect.y), containRect.height)]

\* lines 98-99 of NativePDFBuilder.build: the overlay scale of one page
NativeScale(imgW, imgH, pageSize) ==
  [scaleX |-> Over(Number(pageSize.width), Number(imgW)),
   scaleY |-> Over(Number(pageSize.height), Number(imgH))]

\* The geometry functions applied to sizes and points of 0..MaxExtent; a view
\* that has not been laid out yet and an image whose size is unknown measure 0.
MaxExtent == 2
Extents == 0..MaxExtent
Sizes == [width : Extents, height : Extents]
Points == [x : Extents, y : Extents]
Boxes == [x : {0, 1}, y : {0, 1}, width : {1}, height : {1, 2}]

\* One application of a conversion; a behaviour applies one.
Geometry(fn, args, result) ==
  /\ exported = NoExport
  /\ exported' = [kind |-> "geometry", fn |-> fn, args |-> args, result |-> result]
  /\ lastOp' = Op(fn, Null, 0)
  /\ emitted' = <<>>
  /\ UNCHANGED <<store, appDocs, isProcessing, currentDocumentId, processingQueue,
                 runs, timers, uiOps,
                 progressListeners>>

GetContainRect(img, box) ==
  Geometry("getContainRect", [img |-> img, box |-> box],
           getContainRect(img.width, img.height, box.width, box.height))

MapPreviewToNorm(point, img, box) ==
  LET containRect == getContainRect(img.width, img.height, box.width, box.height)
  IN Geometry("mapPreviewToNorm", [point |-> point, img |-> img, box |-> box],
              mapPreviewToNorm([x |-> Number(point.x), y |-> Number(point.y)],
                               containRect))

MapNormToPreview(point, img, box) ==
  LET containRect == getContainRect(img.width, img.height, box.width, box.height)
  IN Geometry("mapNormToPreview", [point |-> point, img |-> img, box |-> box],
              mapNormToPreview([x |-> Number(point.x), y |-> Number(point.y)],
                               containRect))

ImageRectToPdfRect(box, img, draw) ==
  Geometry("imageRectToPdfRect", [box |-> box, img |-> img, draw |-> draw],
           imageRectToPdfRect(box, img.width, img.height,
                              [x |-> 0, y |-> 0, width |-> draw.width,
                               height |-> draw.height]))

NativeOverlayScale(img, pageSize) ==
  Geometry("nativeScale", [img |-> img, pageSize |-> pageSize],
           NativeScale(img.width, img.height, pageSize))

GeometryNext ==
  \/ \E img \in Sizes, box \in Sizes : GetContainRect(img, box)
  \/ \E point \in Points, img \in Sizes, box \in Sizes : MapPreviewToNorm(point, img, box)
  \/ \E point \in Points, img \in Sizes, box \in Sizes : MapNormToPreview(point, img, box)
  \/ \E box \in Boxes, img \in Sizes, draw \in Sizes : ImageRectToPdfRect(box, img, draw)
  \/ \E img \in Sizes, pageSize \in Sizes : NativeOverlayScale(img, pageSize)

GeometrySpec == Init /\ [][GeometryNext]_vars

\* ------------------------------------------------------------------ sizing
\* The two export pipelines on a recognized document whose page images may
\* differ in pixel size; the words of a page were measured on its own image.
PageSizes == {ImageSize, DoubleSize}

SizedPages(pid, size) ==
  {ExportPage(pid, 0, "color", Undefined, Undefined, ocrBoxes) :
     ocrBoxes \in {Undefined}
                    \cup {Some(<<OcrWordAt(x, y, 2, 1, size)>>) : x \in {0, 1}, y \in {0, 2}}}

SizedDocs ==
  {[NewDoc(1, 0) EXCEPT !.pages = pages, !.ocrStatus = Some("done")]
     @@ [originalPdfPath |-> Undefined] :
     pages \in PageLists([pid \in 1..MaxExportPages |->
                            UNION {SizedPages(pid, size) : size \in PageSizes}])}

SizedEnvs ==
  [originalExists : {FALSE}, imageFilters : {"ok"}, builderLinked : {TRUE},
   fontEmbeds : {TRUE}, imageSizes : [1..MaxExportPages -> PageSizes]]

\* The images on the device are the ones that were recognized.
ImagesOf(doc, env) ==
  \A k \in 1..Len(doc.pages) :
    IsDefined(doc.pages[k].ocrBoxes)
      => /\ Get(doc.pages[k].ocrBoxes)[1].imgW = env.imageSizes[k].width
         /\ Get(doc.pages[k].ocrBoxes)[1].imgH = env.imageSizes[k].height

SizingInit ==
  /\ \E doc \in SizedDocs : store = <<doc>> /\ appDocs = <<doc>>
  /\ QueueAtRest

SizingNext ==
  \/ \E d \in DocIds, env \in SizedEnvs :
       HasDoc(store, d) /\ ImagesOf(DocOf(store, d), env) /\ HandleExport(d, env)
  \/ \E d \in DocIds, env \in SizedEnvs :
       HasDoc(store, d) /\ ImagesOf(DocOf(store, d), env) /\ ExportPdfLib(d, env)

SizingSpec == SizingInit /\ [][SizingNext]_vars

\* ----------------------------------------------------------------- excerpt
\* createOcrExcerpt on pages whose text is at most two words, of lengths around
\* the two limits of the function.
MaxExcerptPages == 2
WordLengths == {0, 1, ExcerptMinBreak, ExcerptMinBreak + 1, ExcerptLimit,
                ExcerptLimit + 1}
Letters(n) == [k \in 1..n |-> "a"]
TwoWords(a, b) == Letters(a) \o <<Space>> \o Letters(b)

ExcerptPages(pid) ==
  {NewPage(pid)}
    \cup {[NewPage(pid) EXCEPT !.ocrText = Some(TwoWords(a, b))] :
            a \in WordLengths, b \in WordLengths}

ExcerptPageLists ==
  UNION {{pages \in [1..n -> UNION {ExcerptPages(k) : k \in 1..n}] :
            \A k \in 1..n : pages[k] \in ExcerptPages(k)} : n \in 0..MaxExcerptPages}

\* One call of createOcrExcerpt; a behaviour makes one.
CreateOcrExcerpt(pages) ==
  /\ exported = NoExport
  /\ exported' = [kind |-> "excerpt", pages |-> pages, result |-> createOcrExcerpt(pages)]
  /\ lastOp' = Op("createOcrExcerpt", Null, 0)
  /\ emitted' = <<>>
  /\ UNCHANGED <<store, appDocs, isProcessing, currentDocumentId, processingQueue,
                 runs, timers, uiOps,
                 progressListeners>>

ExcerptNext == \E pages \in ExcerptPageLists : CreateOcrExcerpt(pages)

ExcerptSpec == Init /\ [][ExcerptNext]_vars

\* ------------------------------------------------------------------- edits
\* The queue together with the editor's handleApplyPageEdits, on documents
\* without pages or with MaxPages pages; a document may have been recognized in
\* an earlier session, so that the Store and the App start with its final write.
EarlierResult == [fullText |-> <<"o", "l", "d">>, words |-> <<SampleWord>>]

RecognizedEarlier(d, n) ==
  LET pages == [k \in 1..n |-> WithOcr(NewPage(k), EarlierResult)]
  IN [NewDoc(d, n) EXCEPT !.pages = pages,
                          !.ocrStatus = Some("done"),
                          !.ocrProgress = Some([processed |-> n, total |-> n]),
                          !.ocrExcerpt = Some(createOcrExcerpt(pages)),
                          !.ocr = LegacyOcr(pages)]

Patches == [rotation : {Some(RotationStep)}]

EditInit ==
  /\ \E recognized \in [DocIds -> BOOLEAN], n \in [DocIds -> {0, MaxPages}] :
       /\ store = [d \in DocIds |-> IF recognized[d] THEN RecognizedEarlier(d, MaxPages)
                                    ELSE NewDoc(d, n[d])]
       /\ appDocs = store
  /\ QueueAtRest

EditNext ==
  \/ QueueNext(MaxAppRuns, NoFallbackTextOutcomes)
  \/ \E d \in DocIds, p \in PageIds, patch \in Patches :
       HandleApplyPageEdits(d, p, patch) /\ uiOps' <= MaxUiOps

EditSpec == EditInit /\ [][EditNext]_vars

\* ------------------------------------------------------------------ import
\* The export of one document that came from an imported PDF: any of its pages
\* may have been deleted, moved, cropped (handleApplyCrop stores a new file and
\* patches uri, width and height), rotated, filtered or auto-contrasted.
CroppedUri(pid) == FileUri(<<"/pages/cropped", ToString(pid)>>)
CroppedSize == [width |-> 2, height |-> 3]

ImportedPage(pid, cropped, rotation, filter, autoContrast) ==
  [ExportPage(pid, rotation, filter, autoContrast, Undefined, Undefined)
     EXCEPT !.uri = IF cropped THEN CroppedUri(pid) ELSE RawUri(pid)]
    @@ (IF cropped THEN CroppedSize ELSE ImageSize)

ImportedPages(pid) ==
  {ImportedPage(pid, cropped, rotation, filter, autoContrast) :
     cropped \in BOOLEAN, rotation \in {0, RotationStep},
     filter \in {"color", "grayscale"}, autoContrast \in {Undefined, Some(TRUE)}}

\* The pages that remain, in any order.
RemainingPageLists ==
  UNION {{pages \in [1..n -> UNION {ImportedPages(pid) : pid \in 1..MaxExportPages}] :
            \A j, k \in 1..n : j # k => pages[j].id # pages[k].id} :
         n \in 0..MaxExportPages}

ImportedDocs ==
  {[NewDoc(1, 0) EXCEPT !.pages = pages] @@ [originalPdfPath |-> Some(OriginalPdfPath)] :
     pages \in RemainingPageLists}

ImportEnvs ==
  [originalExists : BOOLEAN, imageFilters : {"ok"}, builderLinked : {TRUE},
   imageSizes : {UniformSizes(ImageSize)}]

ImportInit ==
  /\ \E doc \in ImportedDocs : store = <<doc>> /\ appDocs = <<doc>>
  /\ QueueAtRest

ImportNext == \E d \in DocIds, env \in ImportEnvs : HandleExport(d, env)

ImportSpec == ImportInit /\ [][ImportNext]_vars

\* ----------------------------------------------------------------- emitter
\* OcrEventEmitter with up to MaxListeners callbacks.  On an event a callback
\* returns, throws, or calls the unsubscribe function of some callback.
MaxListeners == 2
Callbacks == 1..MaxListeners
CallbackActs ==
  [kind : {"return", "throw"}, target : {Null}]
    \cup [kind : {"unsubscribe"}, target : Callbacks]

\* listeners.indexOf(callback), 1-based; 0 stands for -1
IndexOf(listeners, callback) ==
  IF \E k \in 1..Len(listeners) : listeners[k] = callback
  THEN CHOOSE k \in 1..Len(listeners) :
         listeners[k] = callback /\ \A j \in 1..(k - 1) : listeners[j] # callback
  ELSE 0

\* The unsubscribe function onProgress returned for `callback` (lines 25-30)
UnsubscribeResult(listeners, callback) ==
  LET index == IndexOf(listeners, callback)
  IN IF index > 0
     THEN SubSeq(listeners, 1, index - 1) \o SubSeq(listeners, index + 1, Len(listeners))
     ELSE listeners

\* What the callback does to the listener array while it handles the event; a
\* throw is caught by emitProgress (lines 46-50).
AfterCallback(listeners, act) ==
  IF act.kind = "unsubscribe" THEN UnsubscribeResult(listeners, act.target)
  ELSE listeners

\* progressListeners.forEach (lines 45-51): the length is read once, index k is
\* visited when the array still has it, and the array is the live one.
RECURSIVE ForEachListener(_, _, _, _, _)
ForEachListener(k, len, listeners, acts, delivered) ==
  IF k > len THEN [listeners |-> listeners, delivered |-> delivered]
  ELSE IF k > Len(listeners)
       THEN ForEachListener(k + 1, len, listeners, acts, delivered)
       ELSE ForEachListener(k + 1, len, AfterCallback(listeners, acts[listeners[k]]),
                            acts, Append(delivered, listeners[k]))

\* emitProgress (lines 44-52)
emitProgress(listeners, acts) ==
  ForEachListener(1, Len(listeners), listeners, acts, <<>>)

\* onProgress (lines 22-24) with a callback that is not subscribed
OnProgress(callback) ==
  /\ IndexOf(progressListeners, callback) = 0
  /\ progressListeners' = Append(progressListeners, callback)
  /\ lastOp' = Op("onProgress", Null, callback)
  /\ emitted' = <<>>
  /\ UNCHANGED <<store, appDocs, isProcessing, currentDocumentId, processingQueue,
                 runs, timers, uiOps, exported>>

\* A call of an unsubscribe function outside of any callback
Unsubscribe(callback) ==
  /\ progressListeners' = UnsubscribeResult(progressListeners, callback)
  /\ lastOp' = Op("unsubscribe", Null, callback)
  /\ emitted' = <<>>
  /\ UNCHANGED <<store, appDocs, isProcessing, currentDocumentId, processingQueue,
                 runs, timers, uiOps, exported>>

\* One ocrEvents.emitProgress(data) call; `exported` keeps who was subscribed
\* when it started and who was called.
EmitProgress(data, acts) ==
  LET result == emitProgress(progressListeners, acts)
  IN /\ progressListeners' = result.listeners
     /\ exported' = [kind |-> "emit", subscribed |-> progressListeners, acts |-> acts,
                     delivered |-> result.delivered]
     /\ lastOp' = Op("emitProgress", data.documentId, 0)
     /\ emitted' = <<data>>
     /\ UNCHANGED <<store, appDocs, isProcessing, currentDocumentId, processingQueue,
                    runs, timers, uiOps>>

EmitterInit == AppInit

EmitterNext ==
  \/ \E callback \in Callbacks : OnProgress(callback)
  \/ \E callback \in Callbacks : Unsubscribe(callback)
  \/ \E acts \in [Callbacks -> CallbackActs] :
       EmitProgress(ProgressEvent(1, 0, MaxPages, 0), acts)

EmitterSpec == EmitterInit /\ [][EmitterNext]_vars

\* ================================================================ claims
QueueOps == {"enqueueDoc", "cancel", "timer", "pageRecognized", "runRejected"}

\* processDocument runs that have started and not yet returned or thrown: each
\* is suspended at `await recognizePage(page.uri)`, its call outstanding
ActiveRuns == {r \in 1..Len(runs) : runs[r].pc = "recognizing"}

StatusOf(docs, d) == DocOf(docs, d).ocrStatus
ProgressOf(docs, d) == DocOf(docs, d).ocrProgress

\* ------------------------------------------------------------------- C1
\* C1 (as claimed): in every reachable state at most one processDocument run has
\* started and not yet returned, and at most one recognizePage call is
\* outstanding.
C1_SingleFlight == Cardinality(ActiveRuns) <= 1

\* ------------------------------------------------------------------- C2
\* The step is the call enqueueDoc(d).
IsEnqueueOf(d) == lastOp'.op = "enqueueDoc" /\ lastOp'.doc = d

QueueUntouched ==
  /\ UNCHANGED <<store, processingQueue, currentDocumentId, isProcessing, runs, timers>>
  /\ emitted' = <<>>

C3_CancelOnlySetsIdle ==
  [][\A d \in DocIds :
       (lastOp'.op = "cancel" /\ lastOp'.doc = d /\ currentDocumentId = d
        /\ HasDoc(store, d))
       => /\ HasDoc(store', d)
          /\ DocOf(store', d) = [DocOf(store, d) EXCEPT !.ocrStatus = Some("idle")]]_vars

\* A cancel of the active document after its first page was completed.
C3_Witness ==
  /\ lastOp.op = "cancel"
  /\ \E r \in 1..Len(runs) :
       /\ runs[r].doc = lastOp.doc
       /\ runs[r].cancelled
       /\ runs[r].pc = "recognizing"
       /\ runs[r].processed = 1
       /\ HasDoc(store, lastOp.doc)
       /\ StatusOf(store, lastOp.doc) = Some("idle")
       /\ ProgressOf(store, lastOp.doc) = Some([processed |-> 1, total |-> 2])
       /\ IsDefined(DocOf(store, lastOp.doc).pages[1].ocrText)

\* ------------------------------------------------------------------- C4
\* C4 (as claimed): when the recognition call of a cancelled run returns, the
\* result is discarded: the run writes nothing to the Store and emits no event.
C4_CancelledResultDiscarded ==
  [][\A r \in 1..Len(runs) :
       (lastOp'.op = "pageRecognized" /\ lastOp'.run = r /\ runs[r].cancelled)
       => (store' = store /\ emitted' = <<>>)]_vars

\* ------------------------------------------------------------------- C5
\* Nothing is pending: no recognition call, no rejection, no timer, no waiting
\* document.  From here only a new enqueueDoc or cancel call changes anything.
Quiescent ==
  /\ \A r \in 1..Len(runs) : runs[r].pc = "finished"
  /\ timers = 0
  /\ processingQueue = <<>>

\* cancel(d) was called while a run of d was in progress
WasCancelled(d) == \E r \in 1..Len(runs) : runs[r].doc = d /\ runs[r].cancelled

\* C5 (as claimed), in the form a finite run refutes: once every recognition
\* call has returned and nothing is pending, no document that was started and
\* never cancelled is left with the persisted status running (enqueueDoc skips
\* a document whose status is running, so it would stay running forever).
C5_NoneLeftRunning ==
  \A d \in DocIds :
    (Quiescent /\ HasDoc(store, d) /\ ~WasCancelled(d))
      => StatusOf(store, d) # Some("running")

\* ------------------------------------------------------------------- C6
\* The step in which run r returns from processDocument after its last page.
CompletesRun(r) ==
  /\ lastOp'.op = "pageRecognized"
  /\ lastOp'.run = r
  /\ runs'[r].pc = "finished"
  /\ runs'[r].outcome = "success"

\* C6: when a run of a document d with N >= 1 pages that was not cancelled
\* completes, and nobody but the queue writes the Store, the stored d has
\* ocrStatus done, ocrProgress.processed = N = ocrProgress.total, and still N
\* pages, each with ocrText defined (possibly empty).
C6_FullRunPersistsDone ==
  [][\A r \in 1..Len(runs) :
       (CompletesRun(r) /\ ~runs[r].cancelled)
       => LET d == runs[r].doc
              N == Len(PagesOf(store, d))
          IN /\ N >= 1
             /\ N = runs[r].total
             /\ HasDoc(store', d)
             /\ StatusOf(store', d) = Some("done")
             /\ ProgressOf(store', d) = Some([processed |-> N, total |-> N])
             /\ Len(PagesOf(store', d)) = N
             /\ \A k \in 1..N : IsDefined(PagesOf(store', d)[k].ocrText)]_vars

\* A run of a document of two or more pages has just completed, with text
\* found on every page.
C6_Witness ==
  /\ lastOp.op = "pageRecognized"
  /\ runs[lastOp.run].pc = "finished"
  /\ runs[lastOp.run].outcome = "success"
  /\ ~runs[lastOp.run].cancelled
  /\ Len(PagesOf(store, lastOp.doc)) >= 2
  /\ StatusOf(store, lastOp.doc) = Some("done")
  /\ \A k \in 1..Len(PagesOf(store, lastOp.doc)) :
       /\ IsDefined(PagesOf(store, lastOp.doc)[k].ocrText)
       /\ Get(PagesOf(store, lastOp.doc)[k].ocrText) # <<>>

\* ------------------------------------------------------------------- C7
\* The step in which the recognizePage call of run r returns the result of a
\* failure (both engines rejected or timed out).
PageFails(r) ==
  /\ lastOp'.op = "pageRecognized"
  /\ lastOp'.run = r
  /\ lastOp'.result = FailedResult

\* C7: a recognition failure on a page does not fail the document.  The page is
\* written back with ocrText = '' and empty ocrBoxes, processed is incremented
\* and a progress event is emitted; nothing is marked as an error; when more
\* pages follow and the document is still the active one the run goes on to
\* the next page; after the last page the run writes ocrStatus done with
\* processed = total and emits a success completion.
C7_PageFailureIsNotFatal ==
  [][\A r \in 1..Len(runs) :
       (PageFails(r) /\ ~runs[r].cancelled)
       => LET run == runs[r]
              d == run.doc
              k == run.i + 1
          IN /\ HasDoc(store', d)
             /\ Len(PagesOf(store', d)) >= k
             /\ PagesOf(store', d)[k].ocrText = Some(<<>>)
             /\ PagesOf(store', d)[k].ocrBoxes = Some(<<>>)
             /\ IsDefined(ProgressOf(store', d))
             /\ Get(ProgressOf(store', d)).processed = run.processed + 1
             /\ Includes(emitted', ProgressEvent(d, run.processed + 1, run.total, r))
             /\ StatusOf(store', d) # Some("error")
             /\ ~Includes(emitted', CompleteEvent(d, FALSE, r))
             /\ runs'[r].outcome # "error"
             /\ (k < Len(run.pages) /\ currentDocumentId = d)
                => (runs'[r].pc = "recognizing" /\ runs'[r].i = k)
             /\ k = Len(run.pages)
                => /\ StatusOf(store', d) = Some("done")
                   /\ ProgressOf(store', d) =
                        Some([processed |-> run.total, total |-> run.total])
                   /\ Includes(emitted', CompleteEvent(d, TRUE, r))]_vars

\* Recognition found text on page 1 of a two-page document and failed on page
\* 2: the run has completed with processed = 2 = total, status done and an
\* empty text on page 2.
C7_Witness ==
  /\ lastOp.op = "pageRecognized"
  /\ lastOp.result = FailedResult
  /\ runs[lastOp.run].outcome = "success"
  /\ ~runs[lastOp.run].cancelled
  /\ Len(PagesOf(store, lastOp.doc)) = 2
  /\ StatusOf(store, lastOp.doc) = Some("done")
  /\ ProgressOf(store, lastOp.doc) = Some([processed |-> 2, total |-> 2])
  /\ PagesOf(store, lastOp.doc)[1].ocrText # Some(<<>>)
  /\ IsDefined(PagesOf(store, lastOp.doc)[1].ocrText)
  /\ PagesOf(store, lastOp.doc)[2].ocrText = Some(<<>>)
  /\ PagesOf(store, lastOp.doc)[2].ocrBoxes = Some(<<>>)
  /\ Includes(emitted, CompleteEvent(lastOp.doc, TRUE, lastOp.run))

\* ------------------------------------------------------------------- C8
\* The persisted status, a missing one read as idle.
StatusOrIdle(docs, d) ==
  IF IsDefined(StatusOf(docs, d)) THEN Get(StatusOf(docs, d)) ELSE "idle"

AllowedTransitions ==
  {<<"idle", "running">>, <<"running", "done">>, <<"running", "error">>,
   <<"running", "idle">>, <<"error", "running">>}

\* C8 (as claimed): a step of the queue changes the persisted ocrStatus of a
\* document only along idle -> running, running -> done, running -> error,
\* running -> idle or error -> running; in particular done and error replace
\* no status other than running.
C8_StatusTransitions ==
  [][\A d \in DocIds :
       (lastOp'.op \in QueueOps /\ HasDoc(store, d) /\ HasDoc(store', d)
        /\ StatusOrIdle(store', d) # StatusOrIdle(store, d))
       => <<StatusOrIdle(store, d), StatusOrIdle(store', d)>> \in AllowedTransitions]_vars

\* ------------------------------------------------------------------- C9
\* What the UI owns of a document's pages: which pages there are, in which
\* order, and the rotation of each.
PageLayout(docs, d) ==
  [k \in 1..Len(PagesOf(docs, d)) |->
     [id |-> PagesOf(docs, d)[k].id, rotation |-> PagesOf(docs, d)[k].rotation]]

\* C9 (as claimed): no Store write of the queue brings back a page that was
\* deleted or reverts a rotation: every step of the queue leaves the list of
\* pages of every stored document, and each page's rotation, as the Store had
\* them just before the step.
C9_QueueKeepsUiChanges ==
  [][\A d \in DocIds :
       (lastOp'.op \in QueueOps /\ HasDoc(store, d))
       => (HasDoc(store', d) /\ PageLayout(store', d) = PageLayout(store, d))]_vars

\* ------------------------------------------------------------------ C10
\* C10 (as claimed): a run whose document is no longer in the Store when it
\* ends emits a completion event with success = false and none with
\* success = true.
C10_VanishedDocumentFails ==
  [][\A r \in 1..Len(runs) :
       (lastOp'.op = "pageRecognized" /\ lastOp'.run = r
        /\ runs'[r].pc = "finished" /\ ~HasDoc(store', runs[r].doc))
       => /\ ~Includes(emitted', CompleteEvent(runs[r].doc, TRUE, r))
          /\ runs'[r].outcome = "success"
             => Includes(emitted', CompleteEvent(runs[r].doc, FALSE, r))]_vars

\* ------------------------------------------------------------------ C11
\* Run r resumes (its recognizePage call returns or its rejection is handled)
\* after a later run of the same document has started.
ResumesAfterRestart(r) ==
  /\ lastOp'.op \in {"pageRecognized", "runRejected"}
  /\ lastOp'.run = r
  /\ \E r2 \in (r + 1)..Len(runs) : runs[r2].doc = runs[r].doc

\* C11 (as claimed): a re-enqueued document starts fresh, with status running
\* and progress {0, pageCount}, and once its new run has started no earlier run
\* of the same document writes to the Store or emits an event.
C11_RestartIsOnlyRun ==
  [][/\ \A d \in DocIds :
          (IsEnqueueOf(d) /\ Len(runs') = Len(runs) + 1 /\ runs'[Len(runs')].doc = d
           /\ runs'[Len(runs')].pc = "recognizing")
          => /\ StatusOf(store', d) = Some("running")
             /\ ProgressOf(store', d) =
                  Some([processed |-> 0, total |-> Len(PagesOf(store, d))])
     /\ \A r \in 1..Len(runs) :
          ResumesAfterRestart(r) => (store' = store /\ emitted' = <<>>)]_vars

\* ------------------------------------------------------------------ C12
\* a waits ahead of b
Ahead(queue, a, b) ==
  \E i, j \in 1..Len(queue) : i < j /\ queue[i] = a /\ queue[j] = b

\* The step starts a processDocument run of b.
StartsRunOf(b) == Len(runs') = Len(runs) + 1 /\ runs'[Len(runs')].doc = b

IsCancelOf(d) == lastOp'.op = "cancel" /\ lastOp'.doc = d

\* C12: documents are processed first in, first out.  While a and b both wait
\* their order never changes; a document that joins the wait list joins behind
\* those already waiting; no run of b starts while a waits ahead of b or while
\* a waits and b does not, unless the step is cancel(a); and cancel(d) leaves
\* the wait list without d, in the same order, less the head it may start.
C12_Fifo ==
  [][/\ \A a, b \in FifoDocIds :
          a # b =>
            /\ (Ahead(processingQueue, a, b)
                /\ Includes(processingQueue', a) /\ Includes(processingQueue', b))
               => (Ahead(processingQueue', a, b) /\ ~Ahead(processingQueue', b, a))
            /\ (Includes(processingQueue, a) /\ ~Includes(processingQueue, b)
                /\ Includes(processingQueue', a) /\ Includes(processingQueue', b))
               => (Ahead(processingQueue', a, b) /\ ~Ahead(processingQueue', b, a))
            /\ (Ahead(processingQueue, a, b) /\ StartsRunOf(b)) => IsCancelOf(a)
            /\ (Includes(processingQueue, a) /\ ~Includes(processingQueue, b))
               => ~StartsRunOf(b)
     /\ \A d \in FifoDocIds :
          IsCancelOf(d) =>
            LET rest == SelectSeq(processingQueue, LAMBDA id : id # d)
            IN \/ processingQueue' = rest
               \/ /\ rest # <<>>
                  /\ processingQueue' = Tail(rest)
                  /\ StartsRunOf(Head(rest))]_vars

\* Two documents waited; the step has just started the run of the one in front
\* and the other is still waiting.
C12_Witness ==
  /\ lastOp.op \in {"timer", "cancel"}
  /\ Len(processingQueue) >= 1
  /\ Len(runs) >= 1
  /\ currentDocumentId = runs[Len(runs)].doc
  /\ lastOp.doc # currentDocumentId
  /\ Includes(emitted, ProgressEvent(currentDocumentId, 0, 1, Len(runs)))

\* ------------------------------------------------------------------ C13
\* C13 (as claimed, read in favour of the code for a run that was cancelled):
\* every processDocument run that has ended without having been cancelled has
\* emitted exactly one completion event, and no run has emitted more than one.
C13_OneCompletionPerRun ==
  \A r \in 1..Len(runs) :
    /\ runs[r].completions <= 1
    /\ (runs[r].pc = "finished" /\ ~runs[r].cancelled) => runs[r].completions = 1

\* ------------------------------------------------------------------ C14
\* A completion event for document d was emitted in an earlier step.
CompletionSeen(d) ==
  \E r \in 1..Len(runs) : runs[r].doc = d /\ runs[r].completions >= 1

\* C14 (as claimed): when a recognizePage call of a run returns, with or
\* without text, the run emits a progress event whose processed is one more
\* than before; within a step progress comes before completion; and no
\* progress event for a document is emitted once a completion event for that
\* document has been emitted.
C14_ProgressBeforeCompletion ==
  [][/\ \A r \in 1..Len(runs) :
          (lastOp'.op = "pageRecognized" /\ lastOp'.run = r)
          => Includes(emitted', ProgressEvent(runs[r].doc, runs[r].processed + 1,
                                              runs[r].total, r))
     /\ \A i, j \in 1..Len(emitted') :
          (emitted'[i].type = "complete" /\ emitted'[j].type = "progress"
           /\ emitted'[i].documentId = emitted'[j].documentId) => j < i
     /\ \A j \in 1..Len(emitted') :
          emitted'[j].type = "progress" => ~CompletionSeen(emitted'[j].documentId)]_vars

\* ------------------------------------------------------------------ C15
\* C15: every stored document's ocrProgress has processed <= total, and so has
\* every progress event that is emitted.
C15_ProcessedAtMostTotal ==
  /\ \A k \in 1..Len(store) :
       IsDefined(store[k].ocrProgress)
       => Get(store[k].ocrProgress).processed <= Get(store[k].ocrProgress).total
  /\ \A j \in 1..Len(emitted) :
       emitted[j].type = "progress" => emitted[j].processed <= emitted[j].total

\* The recognizePage call of a cancelled run has returned for the last page of
\* a two-page document while another run was in progress: the stored progress
\* has reached processed = total.
C15_Witness ==
  /\ lastOp.op = "pageRecognized"
  /\ runs[lastOp.run].cancelled
  /\ ActiveRuns # {}
  /\ ProgressOf(store, lastOp.doc) = Some([processed |-> 2, total |-> 2])
  /\ Includes(emitted, ProgressEvent(lastOp.doc, 2, 2, lastOp.run))

\* ------------------------------------------------------------------ C16
\* The stored page a recognition request was made for.
RequestedPage == PagesOf(store, exported.doc)[exported.page]

\* C16 (as claimed): for a page whose processedUri is set, the recognition call
\* of the queue is made on processedUri, and the export builds the PDF page
\* from the file at processedUri; neither uses the raw uri.
C16_ProcessedUriUsed ==
  /\ (exported.kind = "ocr" /\ IsDefined(RequestedPage.processedUri))
     => exported.uri = Get(RequestedPage.processedUri)
  /\ exported.kind = "pdf"
     => \A k \in 1..Len(PagesOf(store, exported.doc)) :
          IsDefined(PagesOf(store, exported.doc)[k].processedUri)
          => exported.pages[k].image =
               StripFileScheme(Get(PagesOf(store, exported.doc)[k].processedUri))

\* ------------------------------------------------------------------ C17
\* The document and the device's answers of the last export.
ExportedDoc == DocOf(store, exported.doc)

NoVisualEdit(doc) ==
  \A k \in 1..Len(doc.pages) :
    /\ doc.pages[k].rotation = 0
    /\ doc.pages[k].filter = "color"
    /\ doc.pages[k].autoContrast # Some(TRUE)

OriginalUsable ==
  /\ IsDefined(ExportedDoc.originalPdfPath)
  /\ exported.env.originalExists
  /\ NoVisualEdit(ExportedDoc)

\* C17: buildPdfFromImages returns file:// + originalPdfPath, without a call of
\* ImageFilters.process or of the PDF builder, exactly when originalPdfPath is
\* set, the file exists and no page has a rotation other than 0, a filter other
\* than 'color' or autoContrast = true; in every other case, a missing file
\* included, it takes the rebuild path and does not return the original path.
C17_OriginalOnlyWhenUntouched ==
  lastOp.op = "handleExport" =>
    /\ exported.kind = "original" <=> OriginalUsable
    /\ exported.kind = "original"
       => /\ exported.uri = FileUri(Get(ExportedDoc.originalPdfPath))
          /\ exported.filterCalls = 0
          /\ exported.builderCalls = 0
    /\ ~OriginalUsable
       => /\ exported.builderCalls = 1
          /\ exported.kind \in {"pdf", "rejected"}
          /\ IsDefined(ExportedDoc.originalPdfPath)
             => exported.uri # FileUri(Get(ExportedDoc.originalPdfPath))

\* An imported two-page PDF without edits (autoContrast switched off on a
\* page) was exported and the original file came back.
C17_Witness ==
  /\ lastOp.op = "handleExport"
  /\ exported.kind = "original"
  /\ Len(ExportedDoc.pages) = 2
  /\ \E k \in 1..2 : ExportedDoc.pages[k].autoContrast = Some(FALSE)
  /\ exported.uri = <<FileScheme>> \o OriginalPdfPath

\* ------------------------------------------------------------------ C18
HasOverlay == \E k \in 1..Len(exported.pages) : exported.pages[k].words # <<>>

\* C18 (as claimed): an exported PDF has overlay words only if the document's
\* ocrStatus is done and a page has a non-empty ocrBoxes list; a page whose
\* ocrBoxes list is missing or empty never gets overlay words.
C18_OverlayOnlyWhenDone ==
  exported.kind = "pdf" =>
    /\ HasOverlay
       => /\ ExportedDoc.ocrStatus = Some("done")
          /\ \E k \in 1..Len(ExportedDoc.pages) :
               /\ IsDefined(ExportedDoc.pages[k].ocrBoxes)
               /\ Get(ExportedDoc.pages[k].ocrBoxes) # <<>>
    /\ \A k \in 1..Len(exported.pages) :
         (~IsDefined(ExportedDoc.pages[k].ocrBoxes)
          \/ ExportedDoc.pages[k].ocrBoxes = Some(<<>>))
         => exported.pages[k].words = <<>>

\* ------------------------------------------------------------------ C20
\* The word of the stored page behind the w-th overlay word of page k, and the
\* rect the conversion returned for it.
SourceWord(k, w) == Get(ExportedDoc.pages[k].ocrBoxes)[w]

ReturnedRect(k, w) ==
  IF lastOp.op = "exportPdfLib" THEN exported.pages[k].words[w].rect
  ELSE exported.pages[k].words[w]

InsideImage(word) ==
  /\ word.box.x >= 0 /\ word.box.y >= 0
  /\ word.box.x + word.box.width <= word.imgW
  /\ word.box.y + word.box.height <= word.imgH

\* C20: for a box inside a sourceImageW x sourceImageH image that is drawn
\* into a rect with origin (0,0) of the same size as the image, the conversion
\* of both export pipelines returns x = box.x and
\* y = sourceImageH - (box.y + box.height).
C20_UnitScaleFlipsY ==
  exported.kind = "pdf" =>
    \A k \in 1..Len(exported.pages) :
      \A w \in 1..Len(exported.pages[k].words) :
        (/\ InsideImage(SourceWord(k, w))
         /\ exported.env.imageSizes[1].width = SourceWord(k, w).imgW
         /\ exported.env.imageSizes[1].height = SourceWord(k, w).imgH)
        => /\ ReturnedRect(k, w).x = [num |-> SourceWord(k, w).box.x, den |-> 1]
           /\ ReturnedRect(k, w).y =
                [num |-> SourceWord(k, w).imgH
                           - (SourceWord(k, w).box.y + SourceWord(k, w).box.height),
                 den |-> 1]

\* The box {x: 100, y: 50, width: 200, height: 40} of a 1000 x 1400 image was
\* converted for a 1000 x 1400 page by the pdf-lib export: y = 1310.
C20_Witness ==
  /\ lastOp.op = "exportPdfLib"
  /\ exported.env.imageSizes[1] = SampleSize
  /\ Len(exported.pages) >= 1
  /\ Len(exported.pages[1].words) = 1
  /\ SourceWord(1, 1).box = [x |-> 100, y |-> 50, width |-> 200, height |-> 40]
  /\ exported.pages[1].words[1].rect.x = [num |-> 100, den |-> 1]
  /\ exported.pages[1].words[1].rect.y = [num |-> 1310, den |-> 1]

\* ------------------------------------------------------------------ C19
PrimaryFailed(in) == in.vision \in {"unavailable", "error", "timeout"}
SecondaryFailed(in) == ~in.sizeOk \/ in.text \in {"error", "timeout"}

\* C19: when VisionOCR is unavailable, rejects or times out, the result is the
\* one of TextRecognition: its lines joined, with an empty words list; words
\* are non-empty only when VisionOCR answered, and then they are its words;
\* when both adapters fail recognizePage still returns, with fullText '' and
\* no words.
C19_TwoTiers ==
  exported.kind = "recognized" =>
    LET in == exported.env
        result == exported.result
    IN /\ (PrimaryFailed(in) /\ ~SecondaryFailed(in))
          => (result.fullText = Join(in.lines, Newline) /\ result.words = <<>>)
       /\ result.words # <<>>
          => (~PrimaryFailed(in) /\ result.words = in.visionWords)
       /\ ~PrimaryFailed(in)
          => (result.words = in.visionWords
              /\ result.fullText =
                   Join([k \in 1..Len(in.visionWords) |-> in.visionWords[k].text], Space))
       /\ (PrimaryFailed(in) /\ SecondaryFailed(in))
          => result = [fullText |-> <<>>, words |-> <<>>]

\* VisionOCR ran into the timeout and TextRecognition found a line of text:
\* the result carries the text and no words.
C19_Witness ==
  /\ exported.kind = "recognized"
  /\ exported.env.vision = "timeout"
  /\ exported.env.text = "ok"
  /\ exported.env.sizeOk
  /\ exported.result.fullText # <<>>
  /\ exported.result.words = <<>>

\* ---------------------------------------------------------------- C21
GeometryResult == exported.kind = "geometry"
ResultNumbers ==
  IF exported.fn = "getContainRect"
  THEN {exported.result.x, exported.result.y, exported.result.width,
        exported.result.height}
  ELSE IF exported.fn \in {"mapPreviewToNorm", "mapNormToPreview"}
  THEN {exported.result.x, exported.result.y}
  ELSE IF exported.fn = "imageRectToPdfRect"
  THEN {exported.result.x, exported.result.y, exported.result.size}
  ELSE {exported.result.scaleX, exported.result.scaleY}

\* C21: whatever sizes the geometry conversions are given, a zero-sized image
\* or rectangle included, every number they return is finite: never NaN and
\* never an Infinity.
C21_GeometryIsFinite ==
  GeometryResult => \A a \in ResultNumbers : IsFiniteNumber(a)

\* ---------------------------------------------------------------- C22
\* The step in which run lastOp.run got the result of one page and issued the
\* recognition call for the next one.
NextCallIssued ==
  /\ lastOp.op = "pageRecognized"
  /\ runs[lastOp.run].pc = "recognizing"

PageResultStored(r, k, ocrResult) ==
  LET run == runs[r]
  IN /\ HasDoc(store, run.doc)
     /\ Len(DocOf(store, run.doc).pages) >= k
     /\ DocOf(store, run.doc).pages[k].ocrText = Some(ocrResult.fullText)
     /\ DocOf(store, run.doc).pages[k].ocrBoxes = Some(ocrResult.words)
     /\ DocOf(store, run.doc).ocrProgress = Some([processed |-> k, total |-> run.total])
     /\ \E e \in 1..Len(emitted) : emitted[e] = ProgressEvent(run.doc, k, run.total, r)

\* C22: when a run issues the recognition call for its next page, the result of
\* the page before it is in the Store with the incremented progress and that
\* page's progress event has been emitted; the pages are taken in index order.
C22_PageStoredBeforeNextCall ==
  NextCallIssued =>
    /\ runs[lastOp.run].i = runs[lastOp.run].processed
    /\ PageResultStored(lastOp.run, runs[lastOp.run].i, lastOp.result)

\* ---------------------------------------------------------------- C23
Rebuilt == exported.kind = "pdf"

\* C23: in a rebuilt PDF every page has exactly the pixel size of its own final
\* image, also when the images of one document differ in size.
C23_PageSizedToOwnImage ==
  Rebuilt =>
    \A k \in 1..Len(exported.pages) :
      exported.pages[k].pageRect = exported.env.imageSizes[k]

\* ---------------------------------------------------------------- C24
ExcerptMade == exported.kind = "excerpt"

\* The page texts joined by spaces and trimmed.
JoinedText ==
  Trim(Join([k \in 1..Len(exported.pages) |-> TextOrEmpty(exported.pages[k])], Space))

\* prefix is T cut at a word boundary: a space is on one side of the cut.
CutAtWordBoundary(prefix, T) ==
  /\ Len(prefix) < Len(T)
  /\ prefix = Substring0(T, Len(prefix))
  /\ \/ Len(prefix) = 0
     \/ IsWhitespace(T[Len(prefix)])
     \/ IsWhitespace(T[Len(prefix) + 1])

\* C24: the excerpt is the joined text itself when that has at most 200
\* characters; otherwise it is a prefix of at most 200 characters of the joined
\* text, cut at a word boundary, followed by the ellipsis.
C24_ExcerptCutAtWordBoundary ==
  ExcerptMade =>
    LET T == JoinedText
        e == exported.result
    IN IF Len(T) <= ExcerptLimit THEN e = T
       ELSE /\ Len(e) >= 1
            /\ e[Len(e)] = Ellipsis
            /\ Len(e) - 1 <= ExcerptLimit
            /\ CutAtWordBoundary(Substring0(e, Len(e) - 1), T)

\* ---------------------------------------------------------------- C25
\* handleApplyPageEdits has just changed a page of lastOp.doc.
PageEdited ==
  /\ lastOp.op = "handleApplyPageEdits"
  /\ HasDoc(store, lastOp.doc)

\* Document d is waiting for the queue or a run of it is in progress.
OcrPending(d) ==
  \/ Includes(processingQueue, d)
  \/ \E r \in 1..Len(runs) : runs[r].doc = d /\ runs[r].pc # "finished"

\* C25: when handleApplyPageEdits returns, the edited document is waiting for
\* recognition or being recognized, whatever its ocrStatus was before.
C25_EditReschedulesOcr == PageEdited => OcrPending(lastOp.doc)

\* ---------------------------------------------------------------- C26
\* C26: while a run that was not cancelled is in progress, the queue is marked
\* as processing and its current document is that run's document.
C26_ReplacementRunUndisturbed ==
  \A r \in 1..Len(runs) :
    (runs[r].pc = "recognizing" /\ ~runs[r].cancelled)
      => (isProcessing /\ currentDocumentId = runs[r].doc)

\* ---------------------------------------------------------------- C27
UiSaveOps == {"deleteDoc", "handleDeletePage", "handleRotatePage", "saveDocs"}

\* What the queue has persisted for document d: status, progress, excerpt and
\* the text and boxes of every page, by page id.
OcrFields(docs, d) ==
  LET doc == DocOf(docs, d)
  IN [ocrStatus |-> doc.ocrStatus, ocrProgress |-> doc.ocrProgress,
      ocrExcerpt |-> doc.ocrExcerpt,
      pages |-> {[id |-> doc.pages[k].id, ocrText |-> doc.pages[k].ocrText,
                  ocrBoxes |-> doc.pages[k].ocrBoxes] : k \in 1..Len(doc.pages)}]

\* The OCR fields of d are the same in the two lists, on the pages of `after`.
OcrFieldsKept(before, after, d) ==
  /\ OcrFields(after, d).ocrStatus = OcrFields(before, d).ocrStatus
  /\ OcrFields(after, d).ocrProgress = OcrFields(before, d).ocrProgress
  /\ OcrFields(after, d).ocrExcerpt = OcrFields(before, d).ocrExcerpt
  /\ OcrFields(after, d).pages \subseteq OcrFields(before, d).pages

\* C27: a save of the App's document list leaves the OCR fields that the queue
\* has written for a document unchanged in the Store, for every document that
\* the save keeps.
C27_UiSaveKeepsOcrFields ==
  [][lastOp'.op \in UiSaveOps =>
       \A d \in DocIds :
         (HasDoc(store, d) /\ HasDoc(store', d) /\ IsDefined(DocOf(store, d).ocrStatus))
           => OcrFieldsKept(store, store', d)]_vars

\* ---------------------------------------------------------------- C28
\* The ids of the documents in a list.
IdsOf(docs) == {docs[k].id : k \in 1..Len(docs)}

\* Every record except that of document d is the same in the two lists.
OthersKept(before, after, d) ==
  \A x \in IdsOf(before) \ {d} : HasDoc(after, x) /\ DocOf(after, x) = DocOf(before, x)

\* C28: no step of the queue adds a document to the Store that is not there,
\* and when a run resumes (a recognition call returns, or its rejection is
\* handled) its writes leave the records of all other documents as they are.
C28_DeletedDocumentStaysDeleted ==
  [][lastOp'.op \in QueueOps =>
       /\ IdsOf(store') \subseteq IdsOf(store)
       /\ lastOp'.op \in {"pageRecognized", "runRejected"}
            => OthersKept(store, store', lastOp'.doc)]_vars

\* A run's write came after its document had been deleted.
C28_Witness ==
  /\ lastOp.op \in {"pageRecognized", "runRejected"}
  /\ ~HasDoc(store, lastOp.doc)
  /\ store # <<>>

\* ---------------------------------------------------------------- C29
\* What the fast-path decision may depend on: the original's path and the
\* rotation, filter and autoContrast values found on the pages.
DecisionInputs(doc) ==
  [originalPdfPath |-> doc.originalPdfPath,
   edits |-> {[rotation |-> doc.pages[k].rotation, filter |-> doc.pages[k].filter,
               autoContrast |-> doc.pages[k].autoContrast] : k \in 1..Len(doc.pages)}]

\* Two exports decide alike: both return the same original or both rebuild.
SameDecision(a, b) ==
  /\ (a.kind = "original") = (b.kind = "original")
  /\ a.kind = "original" => a.uri = b.uri

\* C29: the export of an imported document decides as the export of every other
\* imported document with the same originalPdfPath and the same rotation, filter
\* and autoContrast values does on the same device, whichever pages remain, in
\* whatever order and with whatever uri, width and height.
C29_FastPathIgnoresPagesAndCrop ==
  lastOp.op = "handleExport" =>
    \A other \in ImportedDocs :
      DecisionInputs(other) = DecisionInputs(ExportedDoc)
        => SameDecision(buildPdfFromImages(other, exported.env), exported)

\* A cropped, unedited page was exported with the original, as the document
\* with all its pages untouched is.
C29_Witness ==
  /\ lastOp.op = "handleExport"
  /\ exported.kind = "original"
  /\ \E k \in 1..Len(ExportedDoc.pages) : ExportedDoc.pages[k].uri = CroppedUri(ExportedDoc.pages[k].id)
  /\ Len(ExportedDoc.pages) < MaxExportPages

\* ---------------------------------------------------------------- C30
EventEmitted == exported.kind = "emit"

\* The number of times callback was called during the emit.
Deliveries(callback) ==
  Cardinality({k \in 1..Len(exported.delivered) : exported.delivered[k] = callback})

\* C30: an emitted event is delivered exactly once to every callback that was
\* subscribed when the emit started, whatever the callbacks do, and to no
\* other callback.
C30_DeliveredOnceToEachSubscriber ==
  EventEmitted =>
    \A callback \in Callbacks :
      Deliveries(callback) =
        (IF IndexOf(exported.subscribed, callback) > 0 THEN 1 ELSE 0)

====
